---- MODULE Spec2Model ----
(***************************************************************************)
(* libbencode: the bencode Decoder and Encoder.                            *)
(*                                                                         *)
(* Byte buffers are sequences of byte values (0..255); Python indices are  *)
(* 0-based, so byte k of a buffer s is s[k+1].  A Python value is a record *)
(* with a tag and one payload field per variant.  An operation's outcome   *)
(* is a record: a returned value, or the exception it raised.              *)
(***************************************************************************)
EXTENDS Integers, Sequences, FiniteSets, TLC

VARIABLES
    src,        \* how the input was drawn: "value", "wire", "cut", "int", "raw"
    value,      \* the object handed to the Encoder, or the tree a buffer was
                \* written from (Absent when none)
    data,       \* the byte buffer handed to the Decoder / produced by the Encoder
    encoding,   \* the decoder's `encoding` argument ("None" or "utf-8")
    op,         \* the call made last ("running": Decoder.decode has not returned)
    ret,        \* what that call returned or raised
    frames      \* the decode_list / decode_dict calls in progress, innermost last

vars == <<src, value, data, encoding, op, ret, frames>>

----------------------------------------------------------------------------
(* Byte literals of the source.                                            *)
ch_i == 105
ch_e == 101
ch_l == 108
ch_d == 100
ch_colon == 58
ch_minus == 45
ch_0 == 48
ch_9 == 57
(* Bytes that only int() looks at.                                         *)
ch_plus == 43
ch_underscore == 95
ch_space == 32
(* Bytes with no meaning to the format, used in inputs.                    *)
ch_a == 97
ch_x == 120

----------------------------------------------------------------------------
(* Python values.                                                          *)
Absent   == [tag |-> "absent", n |-> 0, b |-> <<>>, keys |-> <<>>, items |-> <<>>]
PyInt(k)   == [tag |-> "int",   n |-> k, b |-> <<>>, keys |-> <<>>, items |-> <<>>]
PyBool(t)  == [tag |-> "bool",  n |-> IF t THEN 1 ELSE 0, b |-> <<>>,
               keys |-> <<>>, items |-> <<>>]
PyBytes(s) == [tag |-> "bytes", n |-> 0, b |-> s, keys |-> <<>>, items |-> <<>>]
\* text: b holds the code points
PyStr(s)   == [tag |-> "str",   n |-> 0, b |-> s, keys |-> <<>>, items |-> <<>>]
PyList(xs) == [tag |-> "list",  n |-> 0, b |-> <<>>, keys |-> <<>>, items |-> xs]
\* a dict in insertion order: keys[k] maps to items[k]
PyDict(ks, xs) == [tag |-> "dict", n |-> 0, b |-> <<>>, keys |-> ks, items |-> xs]
\* an instance of any other type: object(), None, a float, a tuple
PyObject == [tag |-> "object", n |-> 0, b |-> <<>>, keys |-> <<>>, items |-> <<>>]

----------------------------------------------------------------------------
(* Python's bytes primitives.                                              *)

\* data[lo:hi] for 0 <= lo; the slice is clamped to the buffer
Slice(s, lo, hi) ==
    LET h == IF hi > Len(s) THEN Len(s) ELSE hi
    IN  IF lo >= h THEN <<>> ELSE [k \in 1..(h - lo) |-> s[lo + k]]

\* data[lo:]
SliceFrom(s, lo) == Slice(s, lo, Len(s))

RECURSIVE FindFrom(_, _, _)
FindFrom(s, c, k) ==
    IF k >= Len(s) THEN -1
    ELSE IF s[k + 1] = c THEN k
    ELSE FindFrom(s, c, k + 1)

\* data.find(b"c"): the lowest index of byte c, or -1
Find(s, c) == FindFrom(s, c, 0)

\* b"0" <= char <= b"9" where char is data[pos:pos+1] (empty at the buffer's end)
IsDigitChar(char) == Len(char) = 1 /\ ch_0 <= char[1] /\ char[1] <= ch_9

\* bytes.isspace() bytes, which int() strips: \t \n \v \f \r and space
IsSpaceByte(c) == c \in {9, 10, 11, 12, 13, ch_space}

IsDigitByte(c) == ch_0 <= c /\ c <= ch_9

RECURSIVE LStrip(_)
LStrip(s) == IF s # <<>> /\ IsSpaceByte(s[1]) THEN LStrip(Tail(s)) ELSE s

RECURSIVE RStrip(_)
RStrip(s) ==
    IF s # <<>> /\ IsSpaceByte(s[Len(s)]) THEN RStrip(SubSeq(s, 1, Len(s) - 1)) ELSE s

\* the digits of int()'s literal: digits, single underscores only between digits
DigitsOk(s) ==
    /\ s # <<>>
    /\ IsDigitByte(s[1])
    /\ IsDigitByte(s[Len(s)])
    /\ \A k \in 1..Len(s) : IsDigitByte(s[k]) \/ s[k] = ch_underscore
    /\ \A k \in 1..(Len(s) - 1) : ~(s[k] = ch_underscore /\ s[k + 1] = ch_underscore)

RECURSIVE DigitsValue(_, _)
DigitsValue(s, acc) ==
    IF s = <<>> THEN acc
    ELSE IF s[1] = ch_underscore THEN DigitsValue(Tail(s), acc)
    ELSE DigitsValue(Tail(s), 10 * acc + (s[1] - ch_0))

\* the value of a stripped literal t: sign, then digits
SignedValue(t) ==
    IF t # <<>> /\ t[1] \in {ch_minus, ch_plus}
    THEN (IF DigitsOk(Tail(t))
          THEN [ok |-> TRUE,
                v  |-> IF t[1] = ch_minus THEN 0 - DigitsValue(Tail(t), 0)
                       ELSE DigitsValue(Tail(t), 0)]
          ELSE [ok |-> FALSE, v |-> 0])
    ELSE (IF DigitsOk(t) THEN [ok |-> TRUE, v |-> DigitsValue(t, 0)]
          ELSE [ok |-> FALSE, v |-> 0])

\* int(b) in base 10: [ok |-> TRUE, v |-> n], or ok = FALSE for ValueError
IntOfBytes(s) == SignedValue(RStrip(LStrip(s)))

----------------------------------------------------------------------------
(* UTF-8.                                                                  *)

\* one code point (not a surrogate) as UTF-8
Utf8OfCodePoint(c) ==
    IF c < 128 THEN <<c>>
    ELSE IF c < 2048 THEN <<192 + (c \div 64), 128 + (c % 64)>>
    ELSE IF c < 65536
         THEN <<224 + (c \div 4096), 128 + ((c \div 64) % 64), 128 + (c % 64)>>
    ELSE <<240 + (c \div 262144), 128 + ((c \div 4096) % 64),
           128 + ((c \div 64) % 64), 128 + (c % 64)>>

RECURSIVE Utf8Encode(_)
\* text.encode("utf-8")
Utf8Encode(cps) ==
    IF cps = <<>> THEN <<>> ELSE Utf8OfCodePoint(cps[1]) \o Utf8Encode(Tail(cps))

IsCont(s, k) == k <= Len(s) /\ 128 <= s[k] /\ s[k] <= 191

RECURSIVE Utf8Decode(_, _)
\* bytes.decode("utf-8"), strict: [ok, cps]; ok = FALSE for UnicodeDecodeError
Utf8Decode(s, acc) ==
    IF s = <<>> THEN [ok |-> TRUE, cps |-> acc]
    ELSE LET c == s[1] IN
         IF c < 128 THEN Utf8Decode(Tail(s), Append(acc, c))
         ELSE IF 194 <= c /\ c <= 223 /\ IsCont(s, 2)
              THEN Utf8Decode(SubSeq(s, 3, Len(s)),
                              Append(acc, (c - 192) * 64 + (s[2] - 128)))
         ELSE IF /\ 224 <= c /\ c <= 239 /\ IsCont(s, 2) /\ IsCont(s, 3)
                 /\ (c = 224 => s[2] >= 160)
                 /\ (c = 237 => s[2] <= 159)
              THEN Utf8Decode(SubSeq(s, 4, Len(s)),
                              Append(acc, (c - 224) * 4096 + (s[2] - 128) * 64
                                          + (s[3] - 128)))
         ELSE IF /\ 240 <= c /\ c <= 244
                 /\ IsCont(s, 2) /\ IsCont(s, 3) /\ IsCont(s, 4)
                 /\ (c = 240 => s[2] >= 144)
                 /\ (c = 244 => s[2] <= 143)
              THEN Utf8Decode(SubSeq(s, 5, Len(s)),
                              Append(acc, (c - 240) * 262144 + (s[2] - 128) * 4096
                                          + (s[3] - 128) * 64 + (s[4] - 128)))
         ELSE [ok |-> FALSE, cps |-> <<>>]

----------------------------------------------------------------------------
(* Outcomes of a Decoder call.                                             *)

\* returned (val, end)
DecOk(v, e) == [ok |-> TRUE, val |-> v, end |-> e, err |-> "", char |-> <<>>, num |-> 0]

\* raised: err is the message, char and num the bytes / number formatted into it
DecErr(msg, c, k) ==
    [ok |-> FALSE, val |-> Absent, end |-> -1, err |-> msg, char |-> c, num |-> k]

\* BencodeError(exc) for the ValueError of int(span)
InvalidLiteral(span) == DecErr("invalid literal for int() with base 10", span, 0)

----------------------------------------------------------------------------
(* Decoder.  A method's locals are the parameters of the operators that    *)
(* continue it: IntSpan continues decode_int once start and end are found. *)

\* IntReturn with the index one past the closing 'e'
IntReturnPastEnd(n, span, end) ==
    IF n.ok THEN DecOk(PyInt(n.v), end + 1) ELSE InvalidLiteral(span)

\* return (int(data[start+1:end]), end), or the ValueError as BencodeError
IntReturn(n, span, end) == IF n.ok THEN DecOk(PyInt(n.v), end) ELSE InvalidLiteral(span)

IntSpan(buf, start, end) ==
    IF start = -1 THEN DecErr("Integer start not found", <<>>, 0)
    ELSE IF end = -1 THEN DecErr("Integer end not found", <<>>, 0)
    ELSE IF start + 1 = end THEN DecErr("Integer not found", <<>>, 0)
    ELSE IF /\ Slice(buf, start + 1, start + 2) = <<ch_minus>>
            /\ Slice(buf, start + 2, start + 3) = <<ch_0>>
         THEN DecErr("Negative zero is not allowed", <<>>, 0)
    ELSE IF Slice(buf, start + 1, start + 2) = <<ch_0>> /\ start + 2 # end
         THEN DecErr("Leading zeros are not permitted", <<>>, 0)
    ELSE IntReturn(IntOfBytes(Slice(buf, start + 1, end)), Slice(buf, start + 1, end), end)

decode_int(buf) == IntSpan(buf, Find(buf, ch_i), Find(buf, ch_e))

\* decoded_str.decode(encoding) if encoding else decoded_str
StrReturn(decoded_str, text, enc, end) ==
    IF enc = "None" THEN DecOk(PyBytes(decoded_str), end)
    ELSE IF text.ok THEN DecOk(PyStr(text.cps), end)
    ELSE DecErr("UnicodeDecodeError", decoded_str, 0)

\* StrTake without the check of the length against the bytes present
StrTakeUnchecked(decoded_str, length, enc, colon) ==
    StrReturn(decoded_str, Utf8Decode(decoded_str, <<>>), enc, colon + length)

StrTake(decoded_str, length, enc, colon) ==
    IF Len(decoded_str) < length
    THEN DecErr("String length is less than the specified length", <<>>, length)
    ELSE StrReturn(decoded_str, Utf8Decode(decoded_str, <<>>), enc, colon + length)

StrLength(buf, enc, colon, prefix, length) ==
    IF ~length.ok THEN InvalidLiteral(prefix)
    ELSE IF length.v < 0 THEN DecErr("Negative string length is not allowed", <<>>, 0)
    ELSE StrTake(Slice(buf, colon + 1, colon + 1 + length.v), length.v, enc, colon)

StrColon(buf, enc, colon) ==
    IF colon = -1 THEN DecErr("String colon not found", <<>>, 0)
    ELSE StrLength(buf, enc, colon, Slice(buf, 0, colon), IntOfBytes(Slice(buf, 0, colon)))

decode_str(buf, enc) == StrColon(buf, enc, Find(buf, ch_colon))

\* DictSet moving a key that is set again to the end of the mapping
DictSetMovingKey(d, k, v) ==
    PyDict(Append(SelectSeq(d.keys, LAMBDA q : q # k), k),
           Append([j \in 1..(Len(SelectSeq(d.keys, LAMBDA q : q # k))) |->
                      d.items[CHOOSE i \in 1..Len(d.keys) :
                                  d.keys[i] = SelectSeq(d.keys, LAMBDA q : q # k)[j]]],
                  v))

\* decoded_dict[key] = value: a new key goes last, an old key keeps its place
DictSet(d, k, v) ==
    IF \E j \in 1..Len(d.keys) : d.keys[j] = k
    THEN PyDict(d.keys, [j \in 1..Len(d.items) |-> IF d.keys[j] = k THEN v ELSE d.items[j]])
    ELSE PyDict(Append(d.keys, k), Append(d.items, v))

RECURSIVE decode_list(_, _)
RECURSIVE decode_dict(_, _)
RECURSIVE ListLoop(_, _, _, _, _)
RECURSIVE ListAppend(_, _, _, _, _, _)
RECURSIVE DictLoop(_, _, _, _, _)
RECURSIVE DictStore(_, _, _, _, _, _, _)

\* ListAppend resuming at the item's last byte: pos += end
ListAppendAtEnd(buf, pos, length, items, enc, r) ==
    IF r.ok THEN ListLoop(buf, pos + r.end, length, Append(items, r.val), enc)
    ELSE r

\* item, end = ...; items.append(item); pos += end + 1 (r raised: so does the list)
ListAppend(buf, pos, length, items, enc, r) ==
    IF r.ok THEN ListLoop(buf, pos + r.end + 1, length, Append(items, r.val), enc)
    ELSE r

\* one iteration of decode_list's loop on char = data[pos:pos+1]
ListStep(buf, pos, length, items, enc, char) ==
    IF char = <<ch_i>>
    THEN ListAppend(buf, pos, length, items, enc, decode_int(SliceFrom(buf, pos)))
    ELSE IF IsDigitChar(char)
    THEN ListAppend(buf, pos, length, items, enc, decode_str(SliceFrom(buf, pos), enc))
    ELSE IF char = <<ch_l>>
    THEN ListAppend(buf, pos, length, items, enc, decode_list(SliceFrom(buf, pos), enc))
    ELSE IF char = <<ch_d>>
    THEN ListAppend(buf, pos, length, items, enc, decode_dict(SliceFrom(buf, pos), enc))
    ELSE IF char = <<ch_e>> THEN DecOk(PyList(items), pos)
    ELSE DecErr("Invalid character", char, pos)

\* the while loop of decode_list, from the state (pos, items)
ListLoop(buf, pos, length, items, enc) ==
    IF pos < length THEN ListStep(buf, pos, length, items, enc, Slice(buf, pos, pos + 1))
    ELSE DecErr("List end not found", <<>>, 0)

ListStart(buf, enc, start) ==
    IF start = -1 THEN DecErr("List start not found", <<>>, 0)
    ELSE ListLoop(buf, start + 1, Len(SliceFrom(buf, start + 1)) + 1, <<>>, enc)

decode_list(buf, enc) == ListStart(buf, enc, Find(buf, ch_l))

\* value, end = ...; decoded_dict[key] = value; pos += end + 1
DictStore(buf, pos, length, decoded_dict, enc, key, r) ==
    IF r.ok THEN DictLoop(buf, pos + r.end + 1, length, DictSet(decoded_dict, key, r.val), enc)
    ELSE r

\* the value half of an iteration, on char = data[pos:pos+1] after the key
DictValueStep(buf, pos, length, decoded_dict, enc, key, char) ==
    IF char = <<ch_i>>
    THEN DictStore(buf, pos, length, decoded_dict, enc, key, decode_int(SliceFrom(buf, pos)))
    ELSE IF IsDigitChar(char)
    THEN DictStore(buf, pos, length, decoded_dict, enc, key,
                   decode_str(SliceFrom(buf, pos), enc))
    ELSE IF char = <<ch_l>>
    THEN DictStore(buf, pos, length, decoded_dict, enc, key,
                   decode_list(SliceFrom(buf, pos), enc))
    ELSE IF char = <<ch_d>>
    THEN DictStore(buf, pos, length, decoded_dict, enc, key,
                   decode_dict(SliceFrom(buf, pos), enc))
    ELSE DecErr("Invalid value character", char, pos)

\* key, end = cls.decode_str(data[pos:], encoding); pos += end + 1
DictKeyDone(buf, pos, length, decoded_dict, enc, k) ==
    IF k.ok
    THEN DictValueStep(buf, pos + k.end + 1, length, decoded_dict, enc, k.val,
                       Slice(buf, pos + k.end + 1, pos + k.end + 2))
    ELSE k

\* the key half of an iteration, on char = data[pos:pos+1]
DictKeyStep(buf, pos, length, decoded_dict, enc, char) ==
    IF char = <<ch_e>> THEN DecOk(decoded_dict, pos)
    ELSE IF ~IsDigitChar(char) THEN DecErr("Invalid dictionary key character", char, pos)
    ELSE DictKeyDone(buf, pos, length, decoded_dict, enc, decode_str(SliceFrom(buf, pos), enc))

\* the while loop of decode_dict, from the state (pos, decoded_dict)
DictLoop(buf, pos, length, decoded_dict, enc) ==
    IF pos < length
    THEN DictKeyStep(buf, pos, length, decoded_dict, enc, Slice(buf, pos, pos + 1))
    ELSE DecErr("Dictionary end not found", <<>>, 0)

DictStart(buf, enc, start) ==
    IF start = -1 THEN DecErr("Dictionary start not found", <<>>, 0)
    ELSE DictLoop(buf, start + 1, Len(SliceFrom(buf, start + 1)) + 1, PyDict(<<>>, <<>>), enc)

decode_dict(buf, enc) == DictStart(buf, enc, Find(buf, ch_d))

\* cls.decode_xxx(...)[0]: Decoder.decode returns the value alone (end is -1)
First(r) == IF r.ok THEN DecOk(r.val, -1) ELSE r

DecodeChar(buf, enc, char) ==
    IF char = <<ch_i>> THEN First(decode_int(buf))
    ELSE IF IsDigitChar(char) THEN First(decode_str(buf, enc))
    ELSE IF char = <<ch_l>> THEN First(decode_list(buf, enc))
    ELSE IF char = <<ch_d>> THEN First(decode_dict(buf, enc))
    ELSE DecErr("Invalid bencode character", char, 0)

decode(buf, enc) == DecodeChar(buf, enc, Slice(buf, 0, 1))

----------------------------------------------------------------------------
(* Encoder.                                                                *)

\* returned bytes
EncOk(bs) == [ok |-> TRUE, out |-> bs, err |-> "", typ |-> ""]

\* raised BencodeError: err is the message, typ the type it names
EncErr(msg, t) == [ok |-> FALSE, out |-> <<>>, err |-> msg, typ |-> t]

\* isinstance(v, cls); bool is a subclass of int
IsInstance(v, cls) == v.tag = cls \/ (cls = "int" /\ v.tag = "bool")

RECURSIVE NatDigits(_)
NatDigits(k) ==
    IF k < 10 THEN <<ch_0 + k>> ELSE Append(NatDigits(k \div 10), ch_0 + (k % 10))

\* f"{k}".encode("utf-8") for an int k
IntFormat(k) == IF k < 0 THEN <<ch_minus>> \o NatDigits(0 - k) ELSE NatDigits(k)

\* f"{data}" of the object handed to encode_int: a bool formats as its name
Format(v) ==
    IF v.tag = "bool"
    THEN (IF v.n = 1 THEN <<84, 114, 117, 101>> ELSE <<70, 97, 108, 115, 101>>)
    ELSE IntFormat(v.n)

encode_int(v) == <<ch_i>> \o Format(v) \o <<ch_e>>

encode_bytes(bs) == IntFormat(Len(bs)) \o <<ch_colon>> \o bs

\* len(data) counts code points; the whole f-string is then encoded
encode_str(cps) == Utf8Encode(IntFormat(Len(cps)) \o <<ch_colon>> \o cps)

\* int(data) of a bool
encode_bool(v) == encode_int(PyInt(v.n))

RECURSIVE encode_list(_)
RECURSIVE encode_dict(_)
RECURSIVE ListItems(_, _)
RECURSIVE DictItems(_, _, _)

\* ListItem leaving out an item of any other type instead of raising
ListItemSkipping(item) ==
    IF IsInstance(item, "bool") THEN EncOk(encode_bool(item))
    ELSE IF IsInstance(item, "int") THEN EncOk(encode_int(item))
    ELSE IF IsInstance(item, "bytes") THEN EncOk(encode_bytes(item.b))
    ELSE IF IsInstance(item, "str") THEN EncOk(encode_str(item.b))
    ELSE IF IsInstance(item, "dict") THEN encode_dict(item)
    ELSE EncOk(<<>>)

\* the isinstance chain of encode_list for one item
ListItem(item) ==
    IF IsInstance(item, "bool") THEN EncOk(encode_bool(item))
    ELSE IF IsInstance(item, "int") THEN EncOk(encode_int(item))
    ELSE IF IsInstance(item, "bytes") THEN EncOk(encode_bytes(item.b))
    ELSE IF IsInstance(item, "str") THEN EncOk(encode_str(item.b))
    ELSE IF IsInstance(item, "dict") THEN encode_dict(item)
    ELSE EncErr("Unsupported type", item.tag)

\* encoded_list += r (r raised: so does the list)
ListAdd(items, encoded_list, r) ==
    IF r.ok THEN ListItems(Tail(items), encoded_list \o r.out) ELSE r

\* the for loop of encode_list over the items left, encoded_list so far
ListItems(items, encoded_list) ==
    IF items = <<>> THEN EncOk(encoded_list \o <<ch_e>>)
    ELSE ListAdd(items, encoded_list, ListItem(items[1]))

encode_list(v) == ListItems(v.items, <<ch_l>>)

\* the isinstance chain of encode_dict for one key
DictKey(key) ==
    IF IsInstance(key, "bytes") THEN EncOk(encode_bytes(key.b))
    ELSE IF IsInstance(key, "str") THEN EncOk(encode_str(key.b))
    ELSE EncErr("Unsupported dictionary key type", key.tag)

\* DictValue asking isinstance(value, int) before isinstance(value, bool)
DictValueIntFirst(val) ==
    IF IsInstance(val, "int") THEN EncOk(encode_int(val))
    ELSE IF IsInstance(val, "bool") THEN EncOk(encode_bool(val))
    ELSE IF IsInstance(val, "bytes") THEN EncOk(encode_bytes(val.b))
    ELSE IF IsInstance(val, "str") THEN EncOk(encode_str(val.b))
    ELSE IF IsInstance(val, "list") THEN encode_list(val)
    ELSE IF IsInstance(val, "dict") THEN encode_dict(val)
    ELSE EncErr("Unsupported dictionary value type", val.tag)

\* the isinstance chain of encode_dict for one value
DictValue(val) ==
    IF IsInstance(val, "bool") THEN EncOk(encode_bool(val))
    ELSE IF IsInstance(val, "int") THEN EncOk(encode_int(val))
    ELSE IF IsInstance(val, "bytes") THEN EncOk(encode_bytes(val.b))
    ELSE IF IsInstance(val, "str") THEN EncOk(encode_str(val.b))
    ELSE IF IsInstance(val, "list") THEN encode_list(val)
    ELSE IF IsInstance(val, "dict") THEN encode_dict(val)
    ELSE EncErr("Unsupported dictionary value type", val.tag)

\* encoded_dict += r for the value (r raised: so does the dict)
DictAddValue(ks, xs, encoded_dict, r) ==
    IF r.ok THEN DictItems(Tail(ks), Tail(xs), encoded_dict \o r.out) ELSE r

\* encoded_dict += k for the key, then the value
DictAddKey(ks, xs, encoded_dict, k) ==
    IF k.ok THEN DictAddValue(ks, xs, encoded_dict \o k.out, DictValue(xs[1])) ELSE k

\* the for loop of encode_dict over the pairs left, encoded_dict so far
DictItems(ks, xs, encoded_dict) ==
    IF ks = <<>> THEN EncOk(encoded_dict \o <<ch_e>>)
    ELSE DictAddKey(ks, xs, encoded_dict, DictKey(ks[1]))

encode_dict(v) == DictItems(v.keys, v.items, <<ch_d>>)

encode(v) ==
    IF IsInstance(v, "bool") THEN EncOk(encode_bool(v))
    ELSE IF IsInstance(v, "int") THEN EncOk(encode_int(v))
    ELSE IF IsInstance(v, "bytes") THEN EncOk(encode_bytes(v.b))
    ELSE IF IsInstance(v, "str") THEN EncOk(encode_str(v.b))
    ELSE IF IsInstance(v, "list") THEN encode_list(v)
    ELSE IF IsInstance(v, "dict") THEN encode_dict(v)
    ELSE EncErr("Unsupported data type", v.tag)

----------------------------------------------------------------------------
(* Inputs.  The wire format, written out from its grammar:                 *)
(*   integer i<decimal>e, byte string <length>:<bytes>, list l<elem>*e,    *)
(*   dictionary d(<key><value>)*e.                                         *)
(* Trees are enumerated by the length of this form.                        *)

RECURSIVE Wire(_)
RECURSIVE WireAll(_)
RECURSIVE WirePairs(_, _)

\* the well-formed buffer of a tree (text as its UTF-8 bytes, a bool as 0/1);
\* an object has no wire form and counts for as many bytes as an integer
Wire(t) ==
    CASE t.tag \in {"int", "bool"} -> <<ch_i>> \o IntFormat(t.n) \o <<ch_e>>
      [] t.tag = "bytes" -> IntFormat(Len(t.b)) \o <<ch_colon>> \o t.b
      [] t.tag = "str" ->
            IntFormat(Len(Utf8Encode(t.b))) \o <<ch_colon>> \o Utf8Encode(t.b)
      [] t.tag = "list" -> <<ch_l>> \o WireAll(t.items) \o <<ch_e>>
      [] t.tag = "dict" -> <<ch_d>> \o WirePairs(t.keys, t.items) \o <<ch_e>>
      [] OTHER -> <<ch_x, ch_x, ch_x>>

WireAll(xs) == IF xs = <<>> THEN <<>> ELSE Wire(xs[1]) \o WireAll(Tail(xs))

WirePairs(ks, xs) ==
    IF ks = <<>> THEN <<>>
    ELSE Wire(ks[1]) \o Wire(xs[1]) \o WirePairs(Tail(ks), Tail(xs))

\* longest buffer given to the Decoder
MaxWire == 12
\* longest wire form of a value given to the Encoder
MaxValue == 12
\* longest span between 'i' and 'e' in the integer buffers
MaxSpan == 3
\* longest unstructured buffer
MaxRaw == 4

\* the trees of wire length n, given the rows of a table for n - 2
TreesOfLen(n, atoms, ss, ps) ==
    {a \in atoms : Len(Wire(a)) = n}
    \cup {PyList(xs) : xs \in ss}
    \cup {PyDict(q[1], q[2]) : q \in ps}

\* row n+1 of a table holds, for wire length n: v the trees, s the sequences
\* of trees, p the <<keys, values>> pair sequences of exactly that length;
\* v is this row's v
TableRow(tab, n, v, keys) ==
    [v |-> v,
     s |-> UNION {{<<x>> \o r : x \in (IF k = n THEN v ELSE tab[k + 1].v),
                                r \in tab[n - k + 1].s} : k \in 1..n},
     p |-> UNION {UNION {{<<(<<key>> \o r[1]), (<<x>> \o r[2])>> :
                             x \in (IF k = n THEN v ELSE tab[k + 1].v),
                             r \in tab[n - Len(Wire(key)) - k + 1].p}
                         : k \in 1..(n - Len(Wire(key)))}
                  : key \in keys}]

\* the table of rows 0..n from the table of rows 0..n-1
TableNext(tab, n, atoms, keys) ==
    Append(tab, TableRow(tab, n, TreesOfLen(n, atoms, tab[n - 1].s, tab[n - 1].p), keys))

RECURSIVE Table(_, _, _)
\* rows 0..n; no tree is shorter than two bytes
Table(n, atoms, keys) ==
    IF n <= 1
    THEN [k \in 1..(n + 1) |->
             [v |-> {}, s |-> IF k = 1 THEN {<<>>} ELSE {},
              p |-> IF k = 1 THEN {<<(<<>>), (<<>>)>>} ELSE {}]]
    ELSE TableNext(Table(n - 1, atoms, keys), n, atoms, keys)

\* the trees of wire length at most n + 2, from the table of rows 0..n
TreesFrom(tab, n, atoms) ==
    UNION {tab[k + 1].v : k \in 0..n}
    \cup TreesOfLen(n + 1, atoms, tab[n].s, tab[n].p)
    \cup TreesOfLen(n + 2, atoms, tab[n + 1].s, tab[n + 1].p)

TreesUpTo(n, atoms, keys) == TreesFrom(Table(n - 2, atoms, keys), n - 2, atoms)

\* what a buffer can hold: integers, byte strings, lists, dictionaries whose keys
\* are byte strings in any order, repeated or not
WireAtoms == {PyInt(0), PyInt(-12), PyBytes(<<>>), PyBytes(<<ch_e>>)}
WireKeys  == {PyBytes(<<>>), PyBytes(<<ch_a>>)}
WireTrees == TreesUpTo(MaxWire, WireAtoms, WireKeys)

\* what a caller can hand to the Encoder: also bools, text, objects of other
\* types, text keys and keys of other types; a dict holds a key once
ValueAtoms == WireAtoms \cup {PyBool(TRUE), PyBool(FALSE), PyStr(<<233>>), PyObject}
ValueKeys  == WireKeys \cup {PyStr(<<233>>), PyInt(0)}

RECURSIVE UniqueKeys(_)
UniqueKeys(t) ==
    /\ \A j, k \in 1..Len(t.keys) : t.keys[j] = t.keys[k] => j = k
    /\ \A j \in 1..Len(t.items) : UniqueKeys(t.items[j])

\* longest text given to encode_str, in code points
MaxText == 2
\* largest magnitude of an integer given to encode_int
MaxInt == 12

RECURSIVE SeqsUpTo(_, _)
\* the sequences over S of length at most n
SeqsUpTo(S, n) ==
    IF n = 0 THEN {<<>>}
    ELSE LET shorter == SeqsUpTo(S, n - 1)
         IN  shorter \cup {Append(q, x) : q \in shorter, x \in S}

\* code points whose UTF-8 forms take 1, 2, 3 and 4 bytes
Texts == SeqsUpTo({ch_a, 233, 8364, 128512}, MaxText)

Values ==
    {t \in TreesUpTo(MaxValue, ValueAtoms, ValueKeys) : UniqueKeys(t)}
    \cup {PyStr(cps) : cps \in Texts}
    \cup {PyInt(k) : k \in (0 - MaxInt)..MaxInt}

\* most trailing bytes after a complete value
MaxTrail == 2
\* a complete value followed by trailing bytes
Trailers == SeqsUpTo({ch_e, ch_x, ch_i}, MaxTrail)
WireBufs(t) == {Wire(t) \o tr : tr \in {q \in Trailers : Len(Wire(t)) + Len(q) <= MaxWire}}

\* a dictionary cut off before its closing 'e': after its last complete pair,
\* or after one more key
CutBufs(t) ==
    LET open == SubSeq(Wire(t), 1, Len(Wire(t)) - 1)
    IN  {open} \cup {open \o Wire(key) : key \in {q \in WireKeys : Len(open) + Len(Wire(q)) <= MaxWire}}

\* most pairs in a dictionary written out pair by pair
MaxPairs == 3
\* dictionaries of up to MaxPairs pairs, keys in any order and repeated at will
PairDicts ==
    UNION {{PyDict(ks, xs) :
                ks \in [1..n -> WireKeys],
                xs \in [1..n -> {PyInt(0), PyBytes(<<>>), PyBytes(<<ch_e>>), PyList(<<>>)}]}
           : n \in 0..MaxPairs}

\* 'i', a span, 'e'
IntBufs == {<<ch_i>> \o span \o <<ch_e>> :
               span \in SeqsUpTo({ch_0, ch_0 + 1, ch_0 + 2, ch_minus, ch_plus,
                                  ch_space, ch_underscore, ch_a}, MaxSpan)}

\* any bytes
RawBufs == SeqsUpTo({ch_i, ch_e, ch_l, ch_d, ch_0, ch_0 + 1, ch_colon}, MaxRaw)

----------------------------------------------------------------------------
(* The calls.  One input is drawn; each public method is one action.  The  *)
(* bytes Encoder.encode returns may be handed on to Decoder.decode.        *)

NoRet == [ok |-> FALSE, err |-> "no call"]

Encodings == {"None", "utf-8"}

Init ==
    /\ op = "start"
    /\ ret = NoRet
    /\ frames = <<>>
    /\ encoding = "None"
    /\ \/ src = "value" /\ value \in Values /\ data = <<>>
       \/ src = "wire" /\ value \in WireTrees /\ data \in WireBufs(value)
       \/ /\ src = "cut"
          /\ value \in {t \in WireTrees : t.tag = "dict"}
          /\ data \in CutBufs(value)
       \/ src = "pairs" /\ value \in PairDicts /\ data = Wire(value)
       \/ src = "int" /\ value = Absent /\ data \in IntBufs
       \/ src = "raw" /\ value = Absent /\ data \in RawBufs

\* a call of an Encoder method on value
EncoderCall(name, r) ==
    /\ src = "value"
    /\ op = "start"
    /\ op' = name
    /\ ret' = r
    /\ data' = IF r.ok THEN r.out ELSE data
    /\ UNCHANGED <<src, value, encoding, frames>>

EncodeInt   == value.tag = "int"   /\ EncoderCall("encode_int", EncOk(encode_int(value)))
EncodeBytes == value.tag = "bytes" /\ EncoderCall("encode_bytes", EncOk(encode_bytes(value.b)))
EncodeStr   == value.tag = "str"   /\ EncoderCall("encode_str", EncOk(encode_str(value.b)))
EncodeBool  == value.tag = "bool"  /\ EncoderCall("encode_bool", EncOk(encode_bool(value)))
EncodeList  == value.tag = "list"  /\ EncoderCall("encode_list", encode_list(value))
EncodeDict  == value.tag = "dict"  /\ EncoderCall("encode_dict", encode_dict(value))
Encode      == EncoderCall("encode", encode(value))

\* a call of a Decoder method on data: a drawn buffer, or Encoder.encode's bytes
DecoderCall(name, enc, r) ==
    /\ \/ src # "value" /\ op = "start"
       \/ src = "value" /\ op = "encode" /\ ret.ok /\ name = "decode"
    /\ op' = name
    /\ encoding' = enc
    /\ ret' = r
    /\ UNCHANGED <<src, value, data, frames>>

DecodeInt  == DecoderCall("decode_int", "None", decode_int(data))
DecodeStr  == \E enc \in Encodings : DecoderCall("decode_str", enc, decode_str(data, enc))
DecodeList == \E enc \in Encodings : DecoderCall("decode_list", enc, decode_list(data, enc))
DecodeDict == \E enc \in Encodings : DecoderCall("decode_dict", enc, decode_dict(data, enc))
Decode     == \E enc \in Encodings : DecoderCall("decode", enc, decode(data, enc))

Next ==
    \/ EncodeInt \/ EncodeBytes \/ EncodeStr \/ EncodeBool
    \/ EncodeList \/ EncodeDict \/ Encode
    \/ DecodeInt \/ DecodeStr \/ DecodeList \/ DecodeDict \/ Decode

Spec == Init /\ [][Next]_vars

----------------------------------------------------------------------------
(* Decoder.decode run one loop iteration at a time.  A frame is a call of  *)
(* decode_list or decode_dict in progress: its data, pos, length and the   *)
(* items or decoded_dict built so far (key: the key whose value a nested   *)
(* call is decoding).  An integer or byte string is decoded within the     *)
(* iteration; a nested list or dictionary is a new frame on data[pos:].    *)

\* cls.decode_int(data) and cls.decode_str(data, encoding) as functions of their
\* arguments
IntCall == [buf \in Seq(0..255) |-> decode_int(buf)]
StrCall == [buf \in Seq(0..255), enc \in Encodings |-> decode_str(buf, enc)]

\* the locals of decode_list / decode_dict on entry
NewFrame(kind, buf, start) ==
    [kind |-> kind, buf |-> buf, pos |-> start + 1,
     length |-> Len(SliceFrom(buf, start + 1)) + 1,
     val |-> IF kind = "list" THEN PyList(<<>>) ELSE PyDict(<<>>, <<>>),
     key |-> Absent]

Enter(kind, buf) == NewFrame(kind, buf, Find(buf, IF kind = "list" THEN ch_l ELSE ch_d))

\* Store losing the position so far: pos = end + 1
StoreFromZero(f, r) ==
    IF f.kind = "list"
    THEN [f EXCEPT !.val = PyList(Append(f.val.items, r.val)), !.pos = r.end + 1]
    ELSE [f EXCEPT !.val = DictSet(f.val, f.key, r.val), !.pos = r.end + 1]

\* items.append(item) or decoded_dict[key] = value; then pos += end + 1
Store(f, r) ==
    IF f.kind = "list"
    THEN [f EXCEPT !.val = PyList(Append(f.val.items, r.val)), !.pos = f.pos + r.end + 1]
    ELSE [f EXCEPT !.val = DictSet(f.val, f.key, r.val), !.pos = f.pos + r.end + 1]

\* Decoder.decode returns or raises r: every call in progress is left
Finish(r) == op' = "decode" /\ ret' = r /\ frames' = <<>>

\* the calls in progress are now fs
Resume(fs) == op' = "running" /\ ret' = ret /\ frames' = fs

\* the innermost call of fs gets r from a sub-decoder: it stores it and goes on,
\* or r was raised and passes through every caller
Receive(fs, result) ==
    \E r \in {result} :
        IF r.ok THEN Resume([fs EXCEPT ![Len(fs)] = Store(fs[Len(fs)], r)]) ELSE Finish(r)

\* the innermost call returns r: to its caller, or [0] of it to Decoder.decode's
Return(r) ==
    IF Len(frames) = 1 THEN Finish(First(r))
    ELSE Receive(SubSeq(frames, 1, Len(frames) - 1), r)

\* a nested decode_list / decode_dict call on data[pos:] of the innermost call
Nested(fs, kind) ==
    \E rest \in {SliceFrom(fs[Len(fs)].buf, fs[Len(fs)].pos)} :
        \E f \in {Enter(kind, rest)} : Resume(Append(fs, f))

\* one iteration of decode_list's loop in the frame f
ListIteration(f, char) ==
    IF ~(f.pos < f.length) THEN Finish(DecErr("List end not found", <<>>, 0))
    ELSE IF char = <<ch_i>> THEN Receive(frames, IntCall[SliceFrom(f.buf, f.pos)])
    ELSE IF IsDigitChar(char)
    THEN Receive(frames, StrCall[SliceFrom(f.buf, f.pos), encoding])
    ELSE IF char = <<ch_l>> THEN Nested(frames, "list")
    ELSE IF char = <<ch_d>> THEN Nested(frames, "dict")
    ELSE IF char = <<ch_e>> THEN Return(DecOk(f.val, f.pos))
    ELSE Finish(DecErr("Invalid character", char, f.pos))

\* the value half of an iteration of decode_dict's loop: fs holds the frame
\* after the key, f
DictValueIteration(fs, f, char) ==
    IF char = <<ch_i>> THEN Receive(fs, IntCall[SliceFrom(f.buf, f.pos)])
    ELSE IF IsDigitChar(char) THEN Receive(fs, StrCall[SliceFrom(f.buf, f.pos), encoding])
    ELSE IF char = <<ch_l>> THEN Nested(fs, "list")
    ELSE IF char = <<ch_d>> THEN Nested(fs, "dict")
    ELSE Finish(DecErr("Invalid value character", char, f.pos))

\* key, end = cls.decode_str(data[pos:], encoding); pos += end + 1
DictKeyIteration(f, result) ==
    \E k \in {result} :
        IF k.ok
        THEN \E g \in {[f EXCEPT !.pos = f.pos + k.end + 1, !.key = k.val]} :
                 \E fs \in {[frames EXCEPT ![Len(frames)] = g]} :
                     \E char \in {Slice(g.buf, g.pos, g.pos + 1)} :
                         DictValueIteration(fs, g, char)
        ELSE Finish(k)

\* one iteration of decode_dict's loop in the frame f
DictIteration(f, char) ==
    IF ~(f.pos < f.length) THEN Finish(DecErr("Dictionary end not found", <<>>, 0))
    ELSE IF char = <<ch_e>> THEN Return(DecOk(f.val, f.pos))
    ELSE IF ~IsDigitChar(char)
    THEN Finish(DecErr("Invalid dictionary key character", char, f.pos))
    ELSE DictKeyIteration(f, StrCall[SliceFrom(f.buf, f.pos), encoding])

\* the innermost call
Top == frames[Len(frames)]

\* longest well-formed buffer Decoder.decode is run on step by step
MaxRun == 9
\* buffers Decoder.decode is run on: any bytes, and well-formed values
RunBufs == RawBufs \cup {Wire(t) : t \in TreesUpTo(MaxRun, WireAtoms, WireKeys)}

\* no call yet
RunInit ==
    /\ src = "run" /\ value = Absent /\ data = <<>>
    /\ op = "start" /\ ret = NoRet /\ encoding = "None" /\ frames = <<>>

\* Decoder.decode(buf, enc) dispatches on char = buf[0:1]
RunDispatch(buf, enc, char) ==
    IF char = <<ch_i>> THEN Finish(First(IntCall[buf]))
    ELSE IF IsDigitChar(char) THEN Finish(First(StrCall[buf, enc]))
    ELSE IF char = <<ch_l>> THEN Resume(<<Enter("list", buf)>>)
    ELSE IF char = <<ch_d>> THEN Resume(<<Enter("dict", buf)>>)
    ELSE Finish(DecErr("Invalid bencode character", char, 0))

\* Decoder.decode is called on a buffer, with no text encoding
RunDecode ==
    /\ src = "run" /\ op = "start"
    /\ \E buf \in RunBufs :
           /\ data' = buf
           /\ RunDispatch(buf, encoding, Slice(buf, 0, 1))
    /\ UNCHANGED <<src, value, encoding>>

\* the innermost call is decode_list's: char = data[pos:pos+1] and one iteration
RunListStep ==
    /\ op = "running" /\ Top.kind = "list"
    /\ \E f \in {Top} : \E char \in {Slice(f.buf, f.pos, f.pos + 1)} : ListIteration(f, char)
    /\ UNCHANGED <<src, value, data, encoding>>

\* the innermost call is decode_dict's: char = data[pos:pos+1] and one iteration
RunDictStep ==
    /\ op = "running" /\ Top.kind = "dict"
    /\ \E f \in {Top} : \E char \in {Slice(f.buf, f.pos, f.pos + 1)} : DictIteration(f, char)
    /\ UNCHANGED <<src, value, data, encoding>>

RunNext == RunDecode \/ RunListStep \/ RunDictStep

\* a call that has not returned goes on running
Run == RunInit /\ [][RunNext]_vars /\ WF_vars(RunListStep \/ RunDictStep)

----------------------------------------------------------------------------
(* Vocabulary of the properties.                                           *)

RECURSIVE BytesLess(_, _)
\* a < b for bytes: lexicographic
BytesLess(a, b) ==
    IF b = <<>> THEN FALSE
    ELSE IF a = <<>> THEN TRUE
    ELSE IF a[1] # b[1] THEN a[1] < b[1]
    ELSE BytesLess(Tail(a), Tail(b))

RECURSIVE Canonical(_)
\* built only from integers, byte strings, lists and dictionaries whose keys are
\* byte strings, unique and in sorted order
Canonical(v) ==
    CASE v.tag \in {"int", "bytes"} -> TRUE
      [] v.tag = "list" -> \A j \in 1..Len(v.items) : Canonical(v.items[j])
      [] v.tag = "dict" ->
            /\ \A j \in 1..Len(v.keys) : v.keys[j].tag = "bytes"
            /\ \A j \in 1..(Len(v.keys) - 1) : BytesLess(v.keys[j].b, v.keys[j + 1].b)
            /\ \A j \in 1..Len(v.items) : Canonical(v.items[j])
      [] OTHER -> FALSE

\* a list directly inside a list, at any depth
RECURSIVE HasListInList(_)
HasListInList(v) ==
    \/ v.tag = "list" /\ \E j \in 1..Len(v.items) : v.items[j].tag = "list"
    \/ \E j \in 1..Len(v.items) : HasListInList(v.items[j])

\* of a type the Encoder documents as supported for a value
SupportedType(v) == v.tag \in {"bool", "int", "bytes", "str", "list", "dict"}

RECURSIVE HasUnsupported(_)
\* the value, a list element or dictionary value at any depth, or a dictionary
\* key is of a type outside the supported set
HasUnsupported(v) ==
    \/ ~SupportedType(v)
    \/ \E j \in 1..Len(v.keys) : v.keys[j].tag \notin {"bytes", "str"}
    \/ \E j \in 1..Len(v.items) : HasUnsupported(v.items[j])

UnsupportedTypeErrors ==
    {"Unsupported data type", "Unsupported type",
     "Unsupported dictionary key type", "Unsupported dictionary value type"}

RECURSIVE EncodeAll(_)
\* the encodings Encoder.encode gives the elements, one after the other
EncodeAll(xs) == IF xs = <<>> THEN <<>> ELSE encode(xs[1]).out \o EncodeAll(Tail(xs))

\* the canonical decimal form: optional '-', digits, no leading zero unless the
\* numeral is the single digit 0, never "-0"
CanonicalSpan(s) ==
    LET digits == IF s # <<>> /\ s[1] = ch_minus THEN Tail(s) ELSE s
    IN  /\ digits # <<>>
        /\ \A k \in 1..Len(digits) : IsDigitByte(digits[k])
        /\ (digits[1] = ch_0 => digits = <<ch_0>> /\ s = digits)

\* the bytes after the complete value a "wire" buffer starts with
Trailing == SliceFrom(data, Len(Wire(value)))

----------------------------------------------------------------------------
(* C1.  Round trip: for every value built only from integers, byte         *)
(* strings, lists and dictionaries (byte-string keys, unique, sorted), at  *)
(* any nesting including a list directly inside a list, Encoder.encode     *)
(* succeeds and Decoder.decode of its bytes, with no text encoding, gives  *)
(* the value back.                                                         *)
C1_RoundTrip ==
    (src = "value" /\ Canonical(value)) =>
        /\ (op = "encode" => ret.ok)
        /\ (op = "decode" /\ encoding = "None" => ret.ok /\ ret.val = value)

(* C2.  Encoder.encode_list, for every list whose elements are each a      *)
(* boolean, integer, byte string, text string, list or dictionary (each    *)
(* one encodable by itself), returns 'l', the encoding of each element in  *)
(* the list's order, then 'e'.                                             *)
C2_EncodeListAllElements ==
    (/\ op = "encode_list"
     /\ \A j \in 1..Len(value.items) :
            SupportedType(value.items[j]) /\ encode(value.items[j]).ok)
    => /\ ret.ok
       /\ ret.out = <<ch_l>> \o EncodeAll(value.items) \o <<ch_e>>

(* C3.  Encoder.encode_str emits, for every text, the number of bytes of   *)
(* its UTF-8 encoding, then ':', then exactly those bytes.                 *)
C3_StrPrefixIsByteLength ==
    op = "encode_str" =>
        /\ ret.ok
        /\ ret.out = IntFormat(Len(Utf8Encode(value.b))) \o <<ch_colon>>
                     \o Utf8Encode(value.b)

(* C4.  Decoder.decode_int accepts only canonical integers: on a buffer    *)
(* starting with 'i' it returns n only if the bytes between 'i' and the    *)
(* first 'e' are exactly the canonical decimal form of n; every other      *)
(* non-empty span fails with NegativeZero, LeadingZeros or                 *)
(* MalformedInteger.                                                       *)
C4_CanonicalIntegersOnly ==
    (op = "decode_int" /\ Slice(data, 0, 1) = <<ch_i>> /\ Find(data, ch_e) # -1) =>
        LET span == Slice(data, 1, Find(data, ch_e))
        IN  /\ ret.ok => CanonicalSpan(span) /\ span = IntFormat(ret.val.n)
            /\ (span # <<>> /\ ~CanonicalSpan(span)) =>
                   /\ ~ret.ok
                   /\ ret.err \in {"Negative zero is not allowed",
                                   "Leading zeros are not permitted",
                                   "invalid literal for int() with base 10"}

(* C5 as stated.  decode_int(b"i0e") returns (0, 3) and                    *)
(* decode_int(b"i-12e") returns (-12, 4).                                  *)
C5_AsStated ==
    op = "decode_int" =>
        /\ data = <<ch_i, ch_0, ch_e>> => ret = DecOk(PyInt(0), 3)
        /\ data = <<ch_i, ch_minus, ch_0 + 1, ch_0 + 2, ch_e>> => ret = DecOk(PyInt(-12), 4)

(* C5 amended.  decode_int(b"i0e") returns (0, 2), the index of the        *)
(* closing 'e', and decode_int(b"i-12e") returns (-12, 4).                 *)
C5_ClosingIndex ==
    op = "decode_int" =>
        /\ data = <<ch_i, ch_0, ch_e>> => ret = DecOk(PyInt(0), 2)
        /\ data = <<ch_i, ch_minus, ch_0 + 1, ch_0 + 2, ch_e>> => ret = DecOk(PyInt(-12), 4)

C5_Witness == op = "decode_int" /\ data = <<ch_i, ch_0, ch_e>> /\ ret.ok

(* C6.  Position return and trailing bytes: on a buffer that is one        *)
(* complete well-formed value followed by any trailing bytes, the matching *)
(* sub-decoder returns the value and the index of the value's last byte    *)
(* (its encoded length minus 1), whatever the trailing bytes; and          *)
(* Decoder.decode returns the same value.  (A tree that repeats a          *)
(* dictionary key is no value: for it only the index is stated.)           *)
C6_PositionAndTrailingBytes ==
    (src = "wire" /\ op # "start" /\ encoding = "None") =>
        /\ (\/ op = "decode_int" /\ value.tag = "int"
            \/ op = "decode_str" /\ value.tag = "bytes"
            \/ op = "decode_list" /\ value.tag = "list"
            \/ op = "decode_dict" /\ value.tag = "dict")
           => /\ ret.ok
              /\ ret.end = Len(Wire(value)) - 1
              /\ UniqueKeys(value) => ret.val = value
        /\ op = "decode" => ret.ok /\ (UniqueKeys(value) => ret.val = value)

\* a list holding a non-empty list or dictionary, decoded with bytes trailing it
C6_Witness ==
    /\ src = "wire" /\ op = "decode_list" /\ encoding = "None"
    /\ value.tag = "list"
    /\ \E j \in 1..Len(value.items) :
           value.items[j].tag \in {"list", "dict"} /\ value.items[j].items # <<>>
    /\ Trailing # <<>>
    /\ ret.ok /\ ret.val = value

(* C7.  Decoder.decode_list fails with "List start not found" on every     *)
(* buffer whose first byte is not 'l', and Decoder.decode_dict with        *)
(* "Dictionary start not found" on every buffer whose first byte is not    *)
(* 'd', also when 'l' or 'd' occurs later in the buffer.                   *)
C7_MissingStart ==
    /\ (op = "decode_list" /\ Slice(data, 0, 1) # <<ch_l>>)
       => ~ret.ok /\ ret.err = "List start not found"
    /\ (op = "decode_dict" /\ Slice(data, 0, 1) # <<ch_d>>)
       => ~ret.ok /\ ret.err = "Dictionary start not found"

(* C8.  Decoder.decode_dict fails with "Dictionary end not found" on every *)
(* buffer that starts with 'd' and ends before the closing 'e', whether it *)
(* ends at a key position (after zero or more complete pairs) or at a      *)
(* value position (right after a complete key).                            *)
C8_MissingEnd ==
    (src = "cut" /\ op = "decode_dict") =>
        ~ret.ok /\ ret.err = "Dictionary end not found"

(* C9.  Decoder.decode_str length invariant: with declared length n, a     *)
(* success returns exactly the n bytes right after the first ':' and the   *)
(* colon's index plus n; fewer than n bytes after the colon fail with      *)
(* "String length is less than the specified length: n"; a declared        *)
(* length of 0 gives the empty byte string and the colon's index.          *)
C9_StrLength ==
    (op = "decode_str" /\ encoding = "None") =>
        LET colon    == Find(data, ch_colon)
            declared == IntOfBytes(Slice(data, 0, colon))
            n        == declared.v
        IN  /\ ret.ok => colon # -1 /\ declared.ok /\ n >= 0
            /\ (colon # -1 /\ declared.ok /\ n >= 0) =>
                   IF Len(data) - (colon + 1) < n
                   THEN /\ ~ret.ok
                        /\ ret.err = "String length is less than the specified length"
                        /\ ret.num = n
                   ELSE /\ ret.ok
                        /\ Len(ret.val.b) = n
                        /\ ret.val = PyBytes([k \in 1..n |-> data[colon + 1 + k]])
                        /\ ret.end = colon + n
                        /\ n = 0 => ret = DecOk(PyBytes(<<>>), colon)

\* a non-empty string taken from a buffer that goes on after it
C9_Witness ==
    /\ op = "decode_str" /\ encoding = "None"
    /\ ret.ok /\ Len(ret.val.b) >= 1
    /\ Len(data) > ret.end + 1

(* C10.  Encoder.encode fails with an unsupported-type error, and returns  *)
(* no bytes, whenever the value, a list element at any depth, a dictionary *)
(* value at any depth or a dictionary key is of a type outside the         *)
(* supported set, also when supported elements precede the unsupported one.*)
C10_UnsupportedTypeAborts ==
    (op = "encode" /\ HasUnsupported(value)) =>
        /\ ~ret.ok
        /\ ret.err \in UnsupportedTypeErrors
        /\ ret.out = <<>>
        /\ data = <<>>

\* an unsupported object after a supported element, inside a list inside a dict
C10_Witness ==
    /\ op = "encode" /\ ~ret.ok
    /\ value.tag = "dict"
    /\ \E j \in 1..Len(value.items) :
           /\ value.items[j].tag = "list"
           /\ Len(value.items[j].items) = 2
           /\ value.items[j].items[1].tag = "bytes"
           /\ value.items[j].items[2].tag = "object"

RECURSIVE Merged(_)
\* the mapping a sequence of pairs amounts to: each distinct key once, where
\* it first occurs, with the value of its last occurrence (lists and nested
\* dictionaries likewise)
Merged(t) ==
    CASE t.tag = "list" -> PyList([j \in 1..Len(t.items) |-> Merged(t.items[j])])
      [] t.tag = "dict" ->
            LET n     == Len(t.keys)
                first == {j \in 1..n : \A k \in 1..(j - 1) : t.keys[k] # t.keys[j]}
                at(m) == CHOOSE j \in first : Cardinality({k \in first : k < j}) = m - 1
                last(key) == CHOOSE j \in 1..n :
                                 /\ t.keys[j] = key
                                 /\ \A k \in (j + 1)..n : t.keys[k] # key
            IN  PyDict([m \in 1..Cardinality(first) |-> t.keys[at(m)]],
                       [m \in 1..Cardinality(first) |->
                            Merged(t.items[last(t.keys[at(m)])])])
      [] OTHER -> t

\* the messages raised on an invalid byte at a list-element, dictionary-key or
\* dictionary-value position
InvalidByteErrors ==
    {"Invalid character", "Invalid dictionary key character", "Invalid value character"}

(* C11.  Booleans are checked before integers wherever the encoder         *)
(* dispatches: Encoder.encode, a list element in encode_list and a         *)
(* dictionary value in encode_dict each encode True as "i1e" and False as  *)
(* "i0e", never as any other form.                                         *)
C11_BoolBeforeInt ==
    /\ (op = "encode" /\ value.tag = "bool")
       => ret = EncOk(<<ch_i, ch_0 + value.n, ch_e>>)
    /\ (/\ op \in {"encode", "encode_list"} /\ value.tag = "list"
        /\ \A j \in 1..Len(value.items) : value.items[j].tag = "bool")
       => /\ ret.ok
          /\ Len(ret.out) = 3 * Len(value.items) + 2
          /\ \A j \in 1..Len(value.items) :
                 Slice(ret.out, 3 * j - 2, 3 * j + 1)
                     = <<ch_i, ch_0 + value.items[j].n, ch_e>>
    /\ (/\ op \in {"encode", "encode_dict"} /\ value.tag = "dict"
        /\ Len(value.keys) = 1 /\ value.keys[1].tag = "bytes"
        /\ value.items[1].tag = "bool")
       => ret = EncOk(<<ch_d>> \o encode_bytes(value.keys[1].b)
                          \o <<ch_i, ch_0 + value.items[1].n, ch_e>> \o <<ch_e>>)

\* True as the value of a dictionary key, encoded by encode_dict
C11_Witness ==
    /\ op = "encode_dict" /\ ret.ok
    /\ value.tag = "dict" /\ Len(value.keys) = 1 /\ value.keys[1].tag = "bytes"
    /\ value.items[1] = PyBool(TRUE)

(* C12.  Decoder.decode_dict accepts keys in any order and repeated keys:  *)
(* on a well-formed buffer the mapping it returns lists each distinct key  *)
(* once, at the position of its first occurrence in the buffer, mapped to  *)
(* the value of its last occurrence; unsorted or duplicate keys raise no   *)
(* error.                                                                  *)
C12_LastWriteWins ==
    (/\ src \in {"wire", "pairs"} /\ value.tag = "dict"
     /\ op \in {"decode_dict", "decode"} /\ encoding = "None")
    => ret.ok /\ ret.val = Merged(value)

\* three pairs 'a', '', 'a' with different values for 'a': unsorted and repeated
C12_Witness ==
    /\ src = "pairs" /\ op = "decode_dict" /\ encoding = "None"
    /\ Len(value.keys) = 3
    /\ value.keys[1] = PyBytes(<<ch_a>>) /\ value.keys[2] = PyBytes(<<>>)
    /\ value.keys[3] = PyBytes(<<ch_a>>)
    /\ value.items[1] # value.items[3]
    /\ ret.ok /\ ret.val = PyDict(<<value.keys[1], value.keys[2]>>,
                                  <<value.items[3], value.items[2]>>)

(* C13.  When Decoder.decode fails on an invalid byte at a list-element,   *)
(* dictionary-key or dictionary-value position, the error names that byte  *)
(* and its index in the buffer passed to Decoder.decode, also when the     *)
(* byte lies inside a nested list or dictionary: the byte at the index the *)
(* error names is the byte the error names.                                *)
C13_ErrorIndexInBuffer ==
    (op = "decode" /\ ~ret.ok /\ ret.err \in InvalidByteErrors)
    => /\ ret.num \in 0..Len(data)
       /\ Slice(data, ret.num, ret.num + 1) = ret.char

\* the innermost call's position, as an index of the buffer given to decode
\* (the data of a nested call is a tail of it)
Position == Len(data) - Len(Top.buf) + Top.pos

(* C14.  Decoding always terminates: every iteration of the loops of       *)
(* decode_list and decode_dict that does not break or raise moves the      *)
(* position strictly forward, the position never passes the end of the     *)
(* buffer, and for every finite buffer Decoder.decode eventually returns a *)
(* value or raises an error.                                               *)
C14_Terminates ==
    /\ [](op = "running" => Top.pos <= Top.length /\ Position <= Len(data))
    /\ [][(op = "running" /\ op' = "running") => Position' > Position]_vars
    /\ (op = "running") ~> (op = "decode")

\* a dictionary inside a list has returned to the list, which goes on
C14_Witness ==
    /\ op = "running" /\ Len(frames) = 1
    /\ Top.kind = "list" /\ Top.val.items # <<>>
    /\ Top.val.items[Len(Top.val.items)].tag = "dict"
    /\ Top.val.items[Len(Top.val.items)].keys # <<>>

\* run step by step, Decoder.decode ends as it does in one piece
RunAgrees == (src = "run" /\ op = "decode") => ret = decode(data, encoding)

====
